---- MODULE Spec2Model ----
(***************************************************************************)
(* Model of src/app.py, a Streamlit script that keeps a per-session ledger *)
(* of named time blocks (st.session_state.schedule_df) and reconciles it   *)
(* against a day of 1440 minutes.                                          *)
(*                                                                         *)
(* One action is one run of the script: a run in which the form was        *)
(* submitted (SubmitForm), a run in which the clear button was pressed,    *)
(* which ends at st.rerun() (ClearAll), the run that st.rerun() starts     *)
(* (ClearRerun), and a run started by any other interaction (Rerun).       *)
(*                                                                         *)
(* A Python str is a sequence of its characters, each a string.  The       *)
(* characters of the source that are not ASCII are transliterated: the     *)
(* four characters of the synthetic label are "yo", "tei", "na" and "shi", *)
(* and the column names become the field names activity_name, start_time,  *)
(* end_time and duration_minutes.                                          *)
(***************************************************************************)
EXTENDS Integers, Sequences, FiniteSets

VARIABLES
    schedule_df,       \* st.session_state.schedule_df: the rows, in order
    error,             \* which st.sidebar.error the last run showed
    full_schedule_df,  \* the last run's full_schedule_df (<<>>: line 118 not reached)
    display_df,        \* the last run's display_df (<<>>: never assigned)
    overflow,          \* the last run showed the st.error of line 128
    rerun_requested    \* the last run ended at the st.rerun() of line 173

vars == <<schedule_df, error, full_schedule_df, display_df, overflow, rerun_requested>>

----------------------------------------------------------------------------
(* Constants of the program *)

TOTAL_MINUTES_IN_DAY == 1440

SECONDS_IN_MINUTE == 60

SECONDS_IN_DAY == 86400

\* The label of the synthetic row, its four characters transliterated
UNPLANNED == <<"yo", "tei", "na", "shi">>

----------------------------------------------------------------------------
(* Bounds of the model *)

\* The most rows the ledger holds
MaxLen == 2

\* The minute-of-day values the two time inputs take
Times == {0, 60, 1380}

\* The texts the name input takes: "", " ", "work" and the synthetic label, in
\* the order Python's str comparison gives them (by code point: the empty str
\* first, then the space, the Latin letters, the Japanese characters)
SortedNames == << <<>>, <<" ">>, <<"w", "o", "r", "k">>, UNPLANNED >>

Names == {SortedNames[i] : i \in 1..Len(SortedNames)}

----------------------------------------------------------------------------
(* datetime.time, datetime.datetime and timedelta *)

\* datetime.time(hour, minute) for a minute of the day
Time(t) == [hour |-> t \div 60, minute |-> t % 60]

\* datetime.datetime.combine(today, time), in seconds since today's midnight
Combine(time) == time.hour * 3600 + time.minute * SECONDS_IN_MINUTE

DigitChars == <<"0", "1", "2", "3", "4", "5", "6", "7", "8", "9">>

\* time.strftime("%H:%M")
Strftime(time) ==
    << DigitChars[(time.hour \div 10) + 1], DigitChars[(time.hour % 10) + 1], ":",
       DigitChars[(time.minute \div 10) + 1], DigitChars[(time.minute % 10) + 1] >>

\* Python's int(x / 60) for an integer number of seconds x: truncation toward zero
IntDiv(x, d) == IF x >= 0 THEN x \div d ELSE -((-x) \div d)

----------------------------------------------------------------------------
(* pandas *)

\* An empty DataFrame with the four columns
EmptyDataFrame == << >>

\* df.empty
IsEmpty(df) == Len(df) = 0

\* Concat with the new rows put first
Concat_Prepend(a, b) == b \o a

\* pd.concat([a, b], ignore_index=True): the rows of a, then the rows of b
Concat(a, b) == a \o b

\* df[duration column].sum()
RECURSIVE SumMinutes(_)
SumMinutes(df) ==
    IF Len(df) = 0 THEN 0
    ELSE df[1].duration_minutes + SumMinutes(Tail(df))

\* The rows of df whose name is n
RowsNamed(df, n) == SelectSeq(df, LAMBDA r : r.activity_name = n)

\* GroupKeys with sort=False: the names in the order of their first rows
RECURSIVE GroupKeys_FirstSeen(_)
GroupKeys_FirstSeen(df) ==
    IF Len(df) = 0 THEN << >>
    ELSE LET before == GroupKeys_FirstSeen(SubSeq(df, 1, Len(df) - 1))
             name == df[Len(df)].activity_name
         IN  IF \E k \in 1..Len(before) : before[k] = name
             THEN before
             ELSE Append(before, name)

\* The distinct names of df in sorted order: the group keys of df.groupby(name),
\* which sorts them (sort=True is the default)
GroupKeys(df) ==
    SelectSeq(SortedNames, LAMBDA n : \E i \in 1..Len(df) : df[i].activity_name = n)

\* df.groupby(name)[duration].sum().reset_index(name=duration): one row per
\* distinct name, in the order of the sorted names, with the sum of its durations
GroupBySum(df) ==
    LET keys == GroupKeys(df)
    IN  [k \in 1..Len(keys) |->
            [activity_name |-> keys[k],
             duration_minutes |-> SumMinutes(RowsNamed(df, keys[k]))]]

----------------------------------------------------------------------------
(* The form handler, lines 41-77 *)

\* not activity_name: of a str, only the empty one is falsy
NameMissing(activity_name) == Len(activity_name) = 0

\* SameTime with the test of equal times left out
SameTime_Never(start_time, end_time) == FALSE

\* The branch of lines 55-57: start_dt >= end_dt and the two times are equal
SameTime(start_time, end_time) ==
    /\ Combine(start_time) >= Combine(end_time)
    /\ start_time = end_time

\* EndDt with no day added to an interval that wraps
EndDt_NoWrap(start_time, end_time) == Combine(end_time)

\* EndDt with the day added to every interval
EndDt_AlwaysNextDay(start_time, end_time) == Combine(end_time) + SECONDS_IN_DAY

\* end_dt once lines 48-54 have run: a day later when the interval wraps
EndDt(start_time, end_time) ==
    IF Combine(start_time) >= Combine(end_time) /\ start_time # end_time
    THEN Combine(end_time) + SECONDS_IN_DAY
    ELSE Combine(end_time)

\* duration_minutes of lines 59-60
DurationMinutes(start_time, end_time) ==
    IntDiv(EndDt(start_time, end_time) - Combine(start_time), SECONDS_IN_MINUTE)

\* Which st.sidebar.error the handler shows: "none" when the row is added
SubmitError(activity_name, start_time, end_time) ==
    IF NameMissing(activity_name) THEN "EmptyName"
    ELSE IF SameTime(start_time, end_time) THEN "InvalidInterval"
    ELSE IF DurationMinutes(start_time, end_time) > TOTAL_MINUTES_IN_DAY
         THEN "DurationExceeded"
    ELSE "none"

\* The errors after which st.stop() ends the run
Stops(err) == err \in {"InvalidInterval", "DurationExceeded"}

\* new_entry of lines 68-71: a DataFrame of one row
NewEntry(activity_name, start_time, end_time) ==
    << [activity_name    |-> activity_name,
        start_time       |-> Strftime(start_time),
        end_time         |-> Strftime(end_time),
        duration_minutes |-> DurationMinutes(start_time, end_time)] >>

\* st.session_state.schedule_df when the handler is done
AfterSubmit(df, activity_name, start_time, end_time) ==
    IF SubmitError(activity_name, start_time, end_time) = "none"
    THEN Concat(df, NewEntry(activity_name, start_time, end_time))
    ELSE df

----------------------------------------------------------------------------
(* get_full_day_schedule and the display section, lines 81-135 *)

UnplannedEntry(minutes) ==
    << [activity_name |-> UNPLANNED, duration_minutes |-> minutes] >>

\* get_full_day_schedule with the synthetic row never added to the groups
get_full_day_schedule_NoUnplanned(df) ==
    IF IsEmpty(df) THEN UnplannedEntry(TOTAL_MINUTES_IN_DAY)
    ELSE GroupBySum(df)

\* get_full_day_schedule with the empty frame handed back as it is
get_full_day_schedule_EmptyFrame(df) ==
    IF IsEmpty(df) THEN df
    ELSE LET grouped_df == GroupBySum(df)
             unplanned_minutes == TOTAL_MINUTES_IN_DAY - SumMinutes(grouped_df)
         IN  IF unplanned_minutes > 0
             THEN Concat(grouped_df, UnplannedEntry(unplanned_minutes))
             ELSE grouped_df

get_full_day_schedule(df) ==
    IF IsEmpty(df) THEN UnplannedEntry(TOTAL_MINUTES_IN_DAY)
    ELSE LET grouped_df == GroupBySum(df)
             recorded_minutes == SumMinutes(grouped_df)
             unplanned_minutes == TOTAL_MINUTES_IN_DAY - recorded_minutes
         IN  IF unplanned_minutes < 0 THEN grouped_df
             ELSE IF unplanned_minutes > 0
                  THEN Concat(grouped_df, UnplannedEntry(unplanned_minutes))
             ELSE grouped_df

\* The condition of line 127, reached only when the ledger has rows
OverflowShown(df) ==
    /\ ~IsEmpty(df)
    /\ SumMinutes(df) > TOTAL_MINUTES_IN_DAY

\* display_df of lines 121-135; never assigned when the ledger is empty
DisplayDf(df) ==
    IF IsEmpty(df) THEN << >>
    ELSE IF OverflowShown(df) THEN GroupBySum(df)
    ELSE get_full_day_schedule(df)

\* What a run hands to the chart and the tables: the buckets, the overflow
\* condition and the recorded total
Summarize(df) ==
    [buckets  |-> IF IsEmpty(df) THEN get_full_day_schedule(df) ELSE DisplayDf(df),
     overflow |-> OverflowShown(df),
     recorded_total |-> SumMinutes(df)]

\* Sections 4 and 5 of the script run on the ledger df
Display(df) ==
    /\ full_schedule_df' = get_full_day_schedule(df)
    /\ display_df' = DisplayDf(df)
    /\ overflow' = OverflowShown(df)

\* st.stop() before section 4: nothing of it is computed or shown
Stopped ==
    /\ full_schedule_df' = << >>
    /\ display_df' = << >>
    /\ overflow' = FALSE

----------------------------------------------------------------------------
(* The runs of the script *)

\* The first run of a session: init_session_state creates the empty ledger
Init ==
    /\ schedule_df = EmptyDataFrame
    /\ error = "none"
    /\ full_schedule_df = get_full_day_schedule(EmptyDataFrame)
    /\ display_df = << >>
    /\ overflow = FALSE
    /\ rerun_requested = FALSE

\* The clear button is on the page: the last run reached line 168, so it was
\* not ended by st.stop()
ButtonRendered == ~Stops(error)

\* A run with the form submitted: name n, start s and end e (minutes of the day)
SubmitForm(n, s, e) ==
    LET err == SubmitError(n, Time(s), Time(e))
    IN  /\ ~rerun_requested
        /\ IF err = "none" THEN Len(schedule_df) < MaxLen ELSE TRUE
        /\ error' = err
        /\ schedule_df' = AfterSubmit(schedule_df, n, Time(s), Time(e))
        /\ IF Stops(err) THEN Stopped ELSE Display(schedule_df')
        /\ rerun_requested' = FALSE

\* A run with the clear button pressed: the form is not submitted, section 4
\* runs on the ledger as it is, then line 170 empties the ledger and
\* st.rerun() ends the run
ClearAll ==
    /\ ~rerun_requested
    /\ ButtonRendered
    /\ error' = "none"
    /\ Display(schedule_df)
    /\ schedule_df' = EmptyDataFrame
    /\ rerun_requested' = TRUE

\* The run st.rerun() starts: it follows at once, with no submit and no button
ClearRerun ==
    /\ rerun_requested
    /\ schedule_df' = schedule_df
    /\ error' = "none"
    /\ Display(schedule_df')
    /\ rerun_requested' = FALSE

\* A run started by any other interaction: no form submit, no button
Rerun ==
    /\ ~rerun_requested
    /\ schedule_df' = schedule_df
    /\ error' = "none"
    /\ Display(schedule_df')
    /\ rerun_requested' = FALSE

Submit == \E n \in Names, s \in Times, e \in Times : SubmitForm(n, s, e)

Next == Submit \/ ClearAll \/ ClearRerun \/ Rerun

Spec == Init /\ [][Next]_vars

----------------------------------------------------------------------------
(* The first row of a ledger, over the whole day *)

\* The name of the rows
DayName == <<"w", "o", "r", "k">>

\* Every minute of the day
DayTimes == 0..(TOTAL_MINUTES_IN_DAY - 1)

\* A run with the form submitted while the ledger is empty (at the start of a
\* session or once a clear and its rerun are done), the two times ranging
\* over the whole day
SubmitFirst ==
    /\ IsEmpty(schedule_df)
    /\ ~rerun_requested
    /\ \E s \in DayTimes, e \in DayTimes : SubmitForm(DayName, s, e)

NextDay == SubmitFirst \/ ClearAll \/ ClearRerun \/ Rerun

SpecDay == Init /\ [][NextDay]_vars

----------------------------------------------------------------------------
(* What the properties are stated with *)

\* The sum of the minutes of the rows of df at the indices I
RECURSIVE SumOver(_, _)
SumOver(df, I) ==
    IF I = {} THEN 0
    ELSE LET i == CHOOSE j \in I : TRUE
         IN  df[i].duration_minutes + SumOver(df, I \ {i})

\* The sum of the minutes of all rows of df
Total(df) == SumOver(df, 1..Len(df))

\* The recorded minutes of the ledger
Recorded == Total(schedule_df)

\* The buckets a run on the current ledger returns
Buckets == Summarize(schedule_df).buckets

\* The names recorded in df
NamesOf(df) == {df[i].activity_name : i \in 1..Len(df)}

\* The minutes recorded in df under the name n
MinutesOf(df, n) == SumOver(df, {i \in 1..Len(df) : df[i].activity_name = n})

\* name.strip() is empty: the name is empty or consists only of whitespace
IsBlank(name) == \A i \in 1..Len(name) : name[i] = " "

\* The minute of the day an "HH:MM" text denotes
DigitValue(c) == CHOOSE d \in 0..9 : DigitChars[d + 1] = c

MinuteOfDay(text) ==
    (10 * DigitValue(text[1]) + DigitValue(text[2])) * 60
        + 10 * DigitValue(text[4]) + DigitValue(text[5])

\* The orders in which the rows of df can have been added
Reorderings(df) ==
    LET n == Len(df)
        perms == {p \in [1..n -> 1..n] : \A i, j \in 1..n : i # j => p[i] # p[j]}
    IN  {[k \in 1..n |-> df[p[k]]] : p \in perms}

----------------------------------------------------------------------------
(* The properties *)

\* C1: whenever the durations of the rows of the ledger sum to at most 1440,
\* the buckets summarize() returns (the totals per name and the synthetic
\* bucket, if any) sum to exactly 1440.
TotalInvariant ==
    Recorded <= 1440 => Total(Buckets) = 1440

\* C1: a ledger of two rows whose durations sum to exactly 1440; no synthetic
\* bucket is added and the buckets sum to 1440.
TotalInvariantWitness ==
    /\ Len(schedule_df) = 2
    /\ Recorded = 1440
    /\ Len(Buckets) = Cardinality(NamesOf(schedule_df))
    /\ Total(Buckets) = 1440

\* C2: whenever the durations sum to more than 1440, the buckets sum to the
\* recorded total, no bucket is labelled with the synthetic label and
\* overflow is signalled; and overflow is signalled only then.
OverflowInvariant ==
    /\ Recorded > 1440 =>
          /\ Total(Buckets) = Recorded
          /\ \A k \in 1..Len(Buckets) : Buckets[k].activity_name # UNPLANNED
          /\ Summarize(schedule_df).overflow
    /\ Summarize(schedule_df).overflow => Recorded > 1440

\* C3: a submit whose name is empty or only whitespace is rejected with
\* EmptyName and leaves the ledger as it was, whatever the ledger and the times.
EmptyNameRejected ==
    [][\A n \in Names, s \in Times, e \in Times :
          (IsBlank(n) /\ SubmitForm(n, s, e)) =>
              (error' = "EmptyName" /\ schedule_df' = schedule_df)]_vars

\* C4: a submit with a name that is not empty and with start equal to end
\* fails with InvalidInterval and leaves the ledger as it was (the same rows
\* in the same order), whatever the ledger.
ZeroIntervalRejected ==
    [][\A n \in Names, t \in Times :
          (Len(n) > 0 /\ SubmitForm(n, t, t)) =>
              (error' = "InvalidInterval" /\ schedule_df' = schedule_df)]_vars

\* C4: a ledger that holds rows, right after a submit was rejected for its
\* equal times.
ZeroIntervalRejectedWitness ==
    /\ error = "InvalidInterval"
    /\ Len(schedule_df) > 0

\* C5: every row holds, for the start s and the end e it records, s # e and
\* the duration e - s when s < e, (1440 - s) + e when s > e: (e - s) mod 1440.
DayWrapDuration ==
    \A i \in 1..Len(schedule_df) :
        LET s == MinuteOfDay(schedule_df[i].start_time)
            e == MinuteOfDay(schedule_df[i].end_time)
            d == schedule_df[i].duration_minutes
        IN  /\ s # e
            /\ d = (IF s < e THEN e - s ELSE (1440 - s) + e)
            /\ d = (e - s) % 1440

\* C5: the row of 23:00 to 01:00, of 120 minutes.
DayWrapDurationWitness ==
    \E i \in 1..Len(schedule_df) :
        /\ schedule_df[i].start_time = <<"2", "3", ":", "0", "0">>
        /\ schedule_df[i].end_time = <<"0", "1", ":", "0", "0">>
        /\ schedule_df[i].duration_minutes = 120

\* C6: summarize() on an empty ledger returns the single bucket of the
\* synthetic label with 1440 minutes and no overflow; the ledger is empty in
\* the first run of a session and once the clear button was pressed, and the
\* run that follows the clear computes and shows exactly this.
EmptyLedgerDefault ==
    /\ [](IsEmpty(schedule_df) =>
            /\ Buckets = << [activity_name |-> UNPLANNED, duration_minutes |-> 1440] >>
            /\ ~Summarize(schedule_df).overflow)
    /\ [][ClearAll => IsEmpty(schedule_df')]_vars
    /\ [][ClearRerun =>
            /\ IsEmpty(schedule_df')
            /\ full_schedule_df' =
                  << [activity_name |-> UNPLANNED, duration_minutes |-> 1440] >>
            /\ display_df' = << >>
            /\ ~overflow']_vars

\* C6: a ledger just cleared of its rows: the run that cleared it still showed
\* them, and summarize() now returns the single bucket.
EmptyLedgerDefaultWitness ==
    /\ IsEmpty(schedule_df)
    /\ rerun_requested
    /\ display_df # << >>
    /\ Buckets = << [activity_name |-> UNPLANNED, duration_minutes |-> 1440] >>

\* C7: for a ledger that holds rows, the totals per name are one bucket for
\* each recorded name, holding the sum of the durations of the rows of that
\* name, and the buckets are the same for every order of the rows.
AggregationByName ==
    ~IsEmpty(schedule_df) =>
        LET groups == Cardinality(NamesOf(schedule_df))
        IN  /\ Len(Buckets) >= groups
            /\ \A n \in NamesOf(schedule_df) :
                   \E k \in 1..groups :
                       /\ Buckets[k].activity_name = n
                       /\ Buckets[k].duration_minutes = MinutesOf(schedule_df, n)
                       /\ \A j \in 1..groups : Buckets[j].activity_name = n => j = k
            /\ \A df \in Reorderings(schedule_df) :
                   Summarize(df).buckets = Buckets

\* C7: two rows of 60 minutes with the name "work", in one bucket of 120
\* minutes, and the synthetic bucket of 1320.
AggregationByNameWitness ==
    /\ Len(schedule_df) = 2
    /\ \A i \in 1..2 :
          /\ schedule_df[i].activity_name = <<"w", "o", "r", "k">>
          /\ schedule_df[i].duration_minutes = 60
    /\ Buckets = << [activity_name |-> <<"w", "o", "r", "k">>, duration_minutes |-> 120],
                    [activity_name |-> UNPLANNED, duration_minutes |-> 1320] >>

\* C8: a submit that succeeds lengthens the ledger by one row put at the
\* end, with the name, the start and the end as given and the computed
\* duration, and keeps every earlier row in its place; a submit that fails
\* leaves the ledger as it was; a run that only summarizes does too.
AppendOnly ==
    [][/\ \A n \in Names, s \in Times, e \in Times :
              SubmitForm(n, s, e) =>
                  IF error' = "none"
                  THEN LET old == Len(schedule_df)
                           row == schedule_df'[old + 1]
                       IN  /\ Len(schedule_df') = old + 1
                           /\ SubSeq(schedule_df', 1, old) = schedule_df
                           /\ row.activity_name = n
                           /\ MinuteOfDay(row.start_time) = s
                           /\ MinuteOfDay(row.end_time) = e
                           /\ row.duration_minutes = (e - s) % 1440
                  ELSE schedule_df' = schedule_df
       /\ (Rerun \/ ClearRerun) => schedule_df' = schedule_df]_vars

\* C8: a ledger of two different rows, the second just added.
AppendOnlyWitness ==
    /\ Len(schedule_df) = 2
    /\ schedule_df[1] # schedule_df[2]
    /\ error = "none"
    /\ display_df # << >>

\* C9: every row has a duration from 1 to 1439, and no submit is rejected
\* with DurationExceeded.
DurationBounds ==
    /\ \A i \in 1..Len(schedule_df) :
          /\ schedule_df[i].duration_minutes >= 1
          /\ schedule_df[i].duration_minutes <= 1439
    /\ error # "DurationExceeded"

\* C9: the longest row, from 00:01 to 00:00, of 1439 minutes.
DurationBoundsWitness ==
    \E i \in 1..Len(schedule_df) :
        /\ MinuteOfDay(schedule_df[i].start_time) = 1
        /\ MinuteOfDay(schedule_df[i].end_time) = 0
        /\ schedule_df[i].duration_minutes = 1439

\* C10: the labels of the buckets are pairwise distinct, and a bucket with the
\* synthetic label holds 1440 minus the recorded minutes.
DistinctLabels ==
    /\ \A j, k \in 1..Len(Buckets) :
          j # k => Buckets[j].activity_name # Buckets[k].activity_name
    /\ \A k \in 1..Len(Buckets) :
          Buckets[k].activity_name = UNPLANNED =>
              Buckets[k].duration_minutes = 1440 - Recorded

====
